---- MODULE Spec2Model ----
(* Model of the /create-tests webhook of src/server.js: one handler        *)
(* invocation per request, suspended at each awaited axios call, against   *)
(* an issue tracker and a test-management service that answer or fail.     *)
(* Strings are sequences of one-character strings.                         *)
EXTENDS Integers, Sequences, FiniteSets, TLC

(* ---------------- bounds ---------------- *)

\* items in one batch
MaxBatch == 2
\* issues the tracker holds before it refuses further creations
MaxIssues == 2

(* ---------------- values ---------------- *)

Undefined == [t |-> "undefined", v |-> <<>>]
Str(s) == [t |-> "string", v |-> s]

\* JavaScript truthiness of a field value
Truthy(x) == x.t = "string" /\ x.v # <<>>

\* x || "" on a string-or-undefined field
OrEmpty(x) == IF Truthy(x) /\ x.t = "string" THEN x.v ELSE <<>>

DQ == "\""
BS == "\\"
NL == "\n"
Digits == {"0", "1", "2", "3", "4", "5", "6", "7", "8", "9"}
Space == {" ", "\t", "\r"}

(* ---------------- pure functions ---------------- *)

\* a pattern that matches the double quote alone
matchesQuoteOnly(c) == c = DQ

\* line 32: the pattern /["\\]/
matchesQuoteOrBackslash(c) == c \in {DQ, BS}

\* lines 31-33: text.replace(/["\\]/g, "\\$&")
RECURSIVE escapeJQL(_)
escapeJQL(text) ==
  IF text = <<>> THEN <<>>
  ELSE IF matchesQuoteOrBackslash(Head(text))
       THEN <<BS, Head(text)>> \o escapeJQL(Tail(text))
       ELSE <<Head(text)>> \o escapeJQL(Tail(text))

\* the tracker's reading of a JQL string literal: a backslash quotes the
\* character after it
RECURSIVE jqlLiteralValue(_)
jqlLiteralValue(lit) ==
  IF lit = <<>> THEN <<>>
  ELSE IF Head(lit) = BS /\ Len(lit) >= 2
       THEN <<lit[2]>> \o jqlLiteralValue(Tail(Tail(lit)))
       ELSE <<Head(lit)>> \o jqlLiteralValue(Tail(lit))

\* the tracker's parser: a string literal ends at the first double quote
\* that no backslash precedes, so the text between the quotes must have none
RECURSIVE validLiteral(_)
validLiteral(lit) ==
  IF lit = <<>> THEN TRUE
  ELSE IF Head(lit) = BS THEN Len(lit) >= 2 /\ validLiteral(Tail(Tail(lit)))
  ELSE Head(lit) # DQ /\ validLiteral(Tail(lit))

\* String.prototype.split(sep) for a one-character separator
RECURSIVE split(_, _)
split(s, sep) ==
  IF \A i \in 1..Len(s) : s[i] # sep THEN <<s>>
  ELSE LET k == CHOOSE i \in 1..Len(s) :
                   s[i] = sep /\ \A j \in 1..(i - 1) : s[j] # sep
       IN <<SubSeq(s, 1, k - 1)>> \o split(SubSeq(s, k + 1, Len(s)), sep)

RECURSIVE trimStart(_)
trimStart(s) ==
  IF s # <<>> /\ Head(s) \in Space THEN trimStart(Tail(s)) ELSE s

RECURSIVE trimEnd(_)
trimEnd(s) ==
  IF s # <<>> /\ s[Len(s)] \in Space THEN trimEnd(SubSeq(s, 1, Len(s) - 1)) ELSE s

trim(s) == trimEnd(trimStart(s))

RECURSIVE dropDigits(_)
dropDigits(s) ==
  IF s # <<>> /\ Head(s) \in Digits THEN dropDigits(Tail(s)) ELSE s

\* the period of the numbering made optional: /^\d+\.?\s*/
stripNumberingPeriodOptional(step) ==
  LET rest == dropDigits(step)
  IN IF step # <<>> /\ Head(step) \in Digits
     THEN trimStart(IF rest # <<>> /\ Head(rest) = "." THEN Tail(rest) ELSE rest)
     ELSE step

\* step.replace(/^\d+\.\s*/, "")
stripNumbering(step) ==
  LET rest == dropDigits(step)
  IN IF step # <<>> /\ Head(step) \in Digits /\ rest # <<>> /\ Head(rest) = "."
     THEN trimStart(Tail(rest))
     ELSE step

RECURSIVE filterNonEmpty(_)
filterNonEmpty(lines) ==
  IF lines = <<>> THEN <<>>
  ELSE IF Head(lines) # <<>>
       THEN <<Head(lines)>> \o filterNonEmpty(Tail(lines))
       ELSE filterNonEmpty(Tail(lines))

parseNumberedSteps(stepsString, expectedResult) ==
  IF ~Truthy(stepsString) \/ stepsString.t # "string" THEN <<>>
  ELSE LET lines == split(stepsString.v, NL)
           trimmed == [i \in 1..Len(lines) |-> trim(lines[i])]
           kept == filterNonEmpty(trimmed)
           stepsArray == [i \in 1..Len(kept) |-> stripNumbering(kept[i])]
       IN [index \in 1..Len(stepsArray) |->
             [step |-> stepsArray[index],
              data |-> <<>>,
              result |-> IF index = Len(stepsArray)
                         THEN OrEmpty(expectedResult)
                         ELSE <<>>]]

(* ---------------- inputs ---------------- *)

P1 == <<"P", "-", "1">>
P2 == <<"P", "-", "2">>
nameA == <<"a">>
nameB == <<"b", DQ>>
stepsA == <<"1", ".", " ", "x", NL, "2", ".", "y">>

NoSteps == [t |-> "undefined", s |-> <<>>, a |-> <<>>]
StringSteps(s) == [t |-> "string", s |-> s, a |-> <<>>]
ArraySteps(a) == [t |-> "array", s |-> <<>>, a |-> a]
stepsC == <<[step |-> <<"z">>, data |-> <<>>, result |-> <<"k">>]>>

TestCase(requirementId, name, steps, expectedResult) ==
  [requirementId |-> requirementId, name |-> name, steps |-> steps,
   expectedResult |-> expectedResult, expectedresult |-> Undefined]

\* the other forms an item can take: a requirementId with a double quote in
\* it, steps of every type, the expected result under either spelling
PQ == <<"P", DQ, "-", "1">>
NullSteps == [t |-> "null", s |-> <<>>, a |-> <<>>]
NumberSteps == [t |-> "number", s |-> <<>>, a |-> <<>>]
ObjectSteps == [t |-> "object", s |-> <<>>, a |-> <<>>]
StepsForms ==
  {NoSteps, NullSteps, NumberSteps, ObjectSteps, StringSteps(<<>>), ArraySteps(<<>>),
   StringSteps(stepsA), ArraySteps(stepsC)}
ItemForms ==
  {[TestCase(Str(requirementId), Str(name), steps, expected[1])
      EXCEPT !.expectedresult = expected[2]] :
     requirementId \in {P1, PQ}, name \in {nameA, nameB}, steps \in StepsForms,
     expected \in {<<Undefined, Undefined>>, <<Str(<<"r">>), Undefined>>,
                   <<Undefined, Str(<<"r">>)>>}}

\* the items a batch is drawn from: two invalid ones, two valid ones of the
\* same requirement with different names, and one of another requirement
ItemList ==
  << TestCase(Undefined, Str(nameA), NoSteps, Undefined),
     TestCase(Str(P1), Str(<<>>), NoSteps, Undefined),
     TestCase(Str(P1), Str(nameA), StringSteps(stepsA), Str(<<"r">>)),
     TestCase(Str(P1), Str(nameB), NoSteps, Undefined),
     TestCase(Str(P2), Str(nameA), ArraySteps(stepsC), Undefined) >>

RECURSIVE SeqsUpTo(_)
SeqsUpTo(n) ==
  IF n = 0 THEN {<<>>}
  ELSE LET shorter == SeqsUpTo(n - 1)
       IN shorter \cup {Append(b, k) : b \in shorter, k \in 1..Len(ItemList)}

Batches == {[i \in 1..Len(b) |-> ItemList[b[i]]] : b \in SeqsUpTo(MaxBatch)}

\* req.body.tests: absent, a string (empty, not JSON, or JSON text of a
\* value), or a value (a list or another object); the JSON text form is
\* drawn for the batches of at most one item
TestsMissing == [t |-> "undefined", text |-> "", json |-> "", items |-> <<>>]
TestsEmptyString == [t |-> "string", text |-> "", json |-> "", items |-> <<>>]
TestsBadJson == [t |-> "string", text |-> "text", json |-> "invalid", items |-> <<>>]
TestsJsonObject == [t |-> "string", text |-> "text", json |-> "object", items |-> <<>>]
TestsObject == [t |-> "object", text |-> "", json |-> "", items |-> <<>>]
TestsJsonArray(b) == [t |-> "string", text |-> "text", json |-> "array", items |-> b]
TestsArray(b) == [t |-> "array", text |-> "", json |-> "", items |-> b]

Bodies ==
  {TestsMissing, TestsEmptyString, TestsBadJson, TestsJsonObject, TestsObject}
    \cup {TestsJsonArray(b) : b \in {c \in Batches : Len(c) <= 1}}
    \cup {TestsArray(b) : b \in Batches}

\* the requests with a single item, of any form
ItemBodies == {TestsArray(<<item>>) : item \in ItemForms}

\* !tests
TestsFalsy(tests) == tests.t = "undefined" \/ (tests.t = "string" /\ tests.text = "")

\* JSON.parse(tests): whether it throws, and the value it returns
JSONparseThrows(tests) == tests.json = "invalid"
JSONparse(tests) == [t |-> tests.json, text |-> "", json |-> "", items |-> tests.items]

\* for (const test of parsedTests) throws on a value that is not iterable
Iterable(value) == value.t = "array"

\* storyKey.split("-")[0]
projectKeyOf(storyKey) == split(storyKey, "-")[1]

\* the validation with the name check forgotten
invalidItemNameUnchecked(test) == ~Truthy(test.requirementId)

\* !test.requirementId || !test.name
invalidItem(test) == ~Truthy(test.requirementId) \/ ~Truthy(test.name)

\* an item without steps given one blank step
formatStepsBlankStep(test) ==
  IF test.steps.t = "array" /\ test.steps.a # <<>> THEN test.steps.a
  ELSE IF test.steps.t = "string" /\ test.steps.s # <<>>
       THEN parseNumberedSteps(Str(test.steps.s), test.expectedresult)
       ELSE <<[step |-> <<>>, data |-> <<>>, result |-> <<>>]>>

\* lines 243-252: the step list the item is published with
formatSteps(test) ==
  IF test.steps.t = "array" THEN test.steps.a
  ELSE IF test.steps.t = "string"
       THEN parseNumberedSteps(Str(test.steps.s), test.expectedresult)
       ELSE <<>>

(* ---------------- state ---------------- *)

\* handler invocations that can be in progress; SeqSlots are those used when
\* the upstream sends one request after the other
Slots == {1, 2}
SeqSlots == {1}

VARIABLES
  pc,              \* where each invocation stands: idle, entry, loop, an awaited call, done
  tests,           \* req.body.tests
  parsedTests,
  idx,             \* position of the for-of loop in parsedTests, from 1
  created,
  skipped,
  projectId,
  createdTestKey,
  formattedSteps,
  stepIdx,         \* position of addTestSteps' loop in steps, from 1
  calls,           \* the outbound calls of the invocation, in the order issued
  responses,       \* what was written to res
  issues,          \* the tracker: Test issues with their links and published steps
  url,             \* addTestSteps' url, built once per call of addTestSteps
  token,           \* addTestSteps' token
  eval             \* a function applied on its own: its name, arguments and result

locals == <<tests, parsedTests, idx, created, skipped, projectId,
            createdTestKey, formattedSteps, stepIdx>>
vars == <<pc, tests, parsedTests, idx, created, skipped, projectId,
          createdTestKey, formattedSteps, stepIdx, calls, responses, issues,
          url, token, eval>>

NoValue == [t |-> "undefined", text |-> "", json |-> "", items |-> <<>>]
NoKey == [kind |-> "none", n |-> 0]
IssueKey(n) == [kind |-> "key", n |-> n]
IssueId(n) == [kind |-> "id", n |-> n]
\* response.data.id of GET /project/<key>
ProjectIdOf(projectKey) == [kind |-> "projectId", n |-> Len(projectKey)]

(* ---------------- the signer and the step request, lines 91-124 ---------------- *)

\* line 15
ZEPHYR_BASE == "https://prod-api.zephyr4jiracloud.com"
\* line 93: the lifetime of a token, in seconds
TokenLifetime == 60

\* String.prototype.toUpperCase, on the letters that occur
upperOf(c) ==
  CASE c = "p" -> "P" [] c = "o" -> "O" [] c = "s" -> "S" [] c = "t" -> "T"
    [] c = "g" -> "G" [] c = "e" -> "E" [] c = "a" -> "A" [] c = "b" -> "B"
    [] OTHER -> c
toUpperCase(s) == [i \in 1..Len(s) |-> upperOf(s[i])]

\* lines 97-100: the digest, which tells two texts apart
sha256(text) == [hex |-> text]

\* lines 91-112: the claims jwt.sign signs; epoch is the clock read at line 92
generateZephyrJWT(method, apiPath, queryString, epoch) ==
  LET expiry == epoch + TokenLifetime
      canonical == toUpperCase(method) \o <<"&">> \o apiPath \o <<"&">> \o queryString
  IN [iss |-> "ZEPHYR_ACCESS_KEY", iat |-> epoch, exp |-> expiry, qsh |-> sha256(canonical)]

NoToken == [iss |-> "", iat |-> 0, exp |-> 0, qsh |-> sha256(<<>>)]

\* an identifier interpolated into a template literal
asText(k) == <<k.kind, ToString(k.n)>>

POST == <<"P", "O", "S", "T">>

\* the token signed over the path alone
addTestStepsRequestQueryUnsigned(issueKey, pid, epoch) ==
  LET apiPath == <<"/connect/public/rest/api/1.0/teststep/">> \o asText(issueKey)
      queryString == <<"projectId=">> \o asText(pid)
  IN [url |-> <<ZEPHYR_BASE>> \o apiPath \o <<"?">> \o queryString,
      token |-> generateZephyrJWT(POST, apiPath, <<>>, epoch)]

\* lines 119-124: the url and the token addTestSteps builds before its loop
addTestStepsRequest(issueKey, pid, epoch) ==
  LET apiPath == <<"/connect/public/rest/api/1.0/teststep/">> \o asText(issueKey)
      queryString == <<"projectId=">> \o asText(pid)
  IN [url |-> <<ZEPHYR_BASE>> \o apiPath \o <<"?">> \o queryString,
      token |-> generateZephyrJWT(POST, apiPath, queryString, epoch)]

\* lines 129-133: the body of a create-step call; an absent data or result
\* is the empty text, as `|| ""` makes it
stepBody(s) == [step |-> s.step, data |-> s.data, result |-> s.result]

\* no function applied on its own
NoEval == [fn |-> "none", args |-> <<>>, result |-> <<>>, done |-> FALSE]

Awaiting == {"getProjectId", "checkDuplicateTest", "createIssue", "addTestSteps", "linkToStory"}

\* no invocation is in progress and the tracker has no Test issue
Idle ==
  /\ pc = [r \in Slots |-> "idle"]
  /\ tests = [r \in Slots |-> NoValue]
  /\ parsedTests = [r \in Slots |-> NoValue]
  /\ idx = [r \in Slots |-> 0]
  /\ created = [r \in Slots |-> 0]
  /\ skipped = [r \in Slots |-> 0]
  /\ projectId = [r \in Slots |-> NoKey]
  /\ createdTestKey = [r \in Slots |-> NoKey]
  /\ formattedSteps = [r \in Slots |-> <<>>]
  /\ stepIdx = [r \in Slots |-> 0]
  /\ calls = [r \in Slots |-> <<>>]
  /\ responses = [r \in Slots |-> <<>>]
  /\ issues = <<>>
  /\ url = [r \in Slots |-> <<>>]
  /\ token = [r \in Slots |-> NoToken]

Init == Idle /\ eval = NoEval

(* ---------------- responses and calls ---------------- *)

\* res.status(400).json({ error })
Response400 ==
  [status |-> 400, keys |-> {"error"}, created |-> 0, skipped |-> 0, error |-> "No tests received"]
\* res.json({ message, created, skipped })
Response200(c, s) ==
  [status |-> 200, keys |-> {"message", "created", "skipped"}, created |-> c, skipped |-> s, error |-> ""]
\* res.status(500).json({ error })
Response500(error) ==
  [status |-> 500, keys |-> {"error"}, created |-> 0, skipped |-> 0, error |-> error]

Call(kind, item, args) ==
  [kind |-> kind, item |-> item, status |-> "pending", total |-> 0, args |-> args]

\* the awaited call returns, or rejects
Settle(log, status) == [log EXCEPT ![Len(log)].status = status]
\* the search returns response.data.total
SettleSearch(log, total) == [log EXCEPT ![Len(log)].status = "ok", ![Len(log)].total = total]

test(r) == parsedTests[r].items[idx[r]]
storyKey(r) == test(r).requirementId.v
projectKey(r) == projectKeyOf(storyKey(r))

\* the name escaped twice
jqlOfEscapedTwice(pKey, sKey, testName) ==
  [project |-> pKey, summary |-> escapeJQL(escapeJQL(testName)), linkedIssues |-> sKey]

\* lines 58-60: the query checkDuplicateTest sends
jqlOf(pKey, sKey, testName) ==
  [project |-> pKey, summary |-> escapeJQL(testName), linkedIssues |-> sKey]

\* the tracker's answer to the query: the issues of the project whose summary
\* is the quoted text and that are linked to the quoted issue
searchTotal(jql) ==
  Cardinality({i \in 1..Len(issues) :
                 /\ issues[i].project = jql.project
                 /\ issues[i].summary = jqlLiteralValue(jql.summary)
                 /\ jqlLiteralValue(jql.linkedIssues) \in issues[i].links})

\* the tracker parses the query: the unquoted project key has no quote and
\* the two literals end where the query closes them
searchAccepted(jql) ==
  /\ \A i \in 1..Len(jql.project) : jql.project[i] # DQ
  /\ validLiteral(jql.summary)
  /\ validLiteral(jql.linkedIssues)

\* the comparison off by one
isDuplicateMoreThanOne(total) == total > 1

\* line 68
isDuplicate(total) == total > 0

\* the steps sent from the last of the list to the first
callAfterCreateLastFirst(r, key, steps, k, request) ==
  IF k <= Len(steps)
  THEN Call("addTestSteps", idx[r],
            [issue |-> key, projectId |-> projectId[r], method |-> POST,
             url |-> request.url, token |-> request.token,
             step |-> stepBody(steps[Len(steps) + 1 - k])])
  ELSE Call("linkToStory", idx[r], [inwardIssue |-> storyKey(r), outwardIssue |-> key])

\* the link sent without waiting for the last step
callAfterCreateLastStepSkipped(r, key, steps, k, request) ==
  IF k < Len(steps)
  THEN Call("addTestSteps", idx[r],
            [issue |-> key, projectId |-> projectId[r], method |-> POST,
             url |-> request.url, token |-> request.token, step |-> stepBody(steps[k])])
  ELSE Call("linkToStory", idx[r], [inwardIssue |-> storyKey(r), outwardIssue |-> key])

\* lines 254-259: the call issued once the issue exists, and after each step
callAfterCreate(r, key, steps, k, request) ==
  IF k <= Len(steps)
  THEN Call("addTestSteps", idx[r],
            [issue |-> key, projectId |-> projectId[r], method |-> POST,
             url |-> request.url, token |-> request.token, step |-> stepBody(steps[k])])
  ELSE Call("linkToStory", idx[r], [inwardIssue |-> storyKey(r), outwardIssue |-> key])

pcOf(call) == call.kind

(* ---------------- the handler, lines 172-273 ---------------- *)

\* a request arrives
Receive(r, body) ==
  /\ pc[r] = "idle"
  /\ pc' = [pc EXCEPT ![r] = "entry"]
  /\ tests' = [tests EXCEPT ![r] = body]
  /\ UNCHANGED <<parsedTests, idx, created, skipped, projectId, createdTestKey,
                 formattedSteps, stepIdx, calls, responses, issues>>
  /\ UNCHANGED <<url, token, eval>>

\* res.json / res.status().json, after which the handler has returned
Respond(r, response) ==
  /\ responses' = [responses EXCEPT ![r] = Append(@, response)]
  /\ pc' = [pc EXCEPT ![r] = "done"]

\* the 400 answer without its return: the handler goes on with the loop
EntryNoReturn(r) ==
  /\ pc[r] = "entry"
  /\ IF TestsFalsy(tests[r])
     THEN /\ responses' = [responses EXCEPT ![r] = Append(@, Response400)]
          /\ parsedTests' = [parsedTests EXCEPT ![r] = tests[r]]
          /\ created' = [created EXCEPT ![r] = 0]
          /\ skipped' = [skipped EXCEPT ![r] = 0]
          /\ idx' = [idx EXCEPT ![r] = 1]
          /\ pc' = [pc EXCEPT ![r] = "loop"]
     ELSE IF tests[r].t = "string" /\ JSONparseThrows(tests[r])
     THEN /\ Respond(r, Response500("SyntaxError"))
          /\ UNCHANGED <<parsedTests, idx, created, skipped>>
     ELSE /\ parsedTests' = [parsedTests EXCEPT ![r] =
                               IF tests[r].t = "string" THEN JSONparse(tests[r]) ELSE tests[r]]
          /\ created' = [created EXCEPT ![r] = 0]
          /\ skipped' = [skipped EXCEPT ![r] = 0]
          /\ idx' = [idx EXCEPT ![r] = 1]
          /\ pc' = [pc EXCEPT ![r] = "loop"]
          /\ UNCHANGED responses
  /\ UNCHANGED <<tests, projectId, createdTestKey, formattedSteps, stepIdx, calls, issues>>
  /\ UNCHANGED <<url, token, eval>>

\* lines 176-183
Entry(r) ==
  /\ pc[r] = "entry"
  /\ IF TestsFalsy(tests[r])
     THEN /\ Respond(r, Response400)
          /\ UNCHANGED <<parsedTests, idx, created, skipped>>
     ELSE IF tests[r].t = "string" /\ JSONparseThrows(tests[r])
     THEN /\ Respond(r, Response500("SyntaxError"))
          /\ UNCHANGED <<parsedTests, idx, created, skipped>>
     ELSE /\ parsedTests' = [parsedTests EXCEPT ![r] =
                               IF tests[r].t = "string" THEN JSONparse(tests[r]) ELSE tests[r]]
          /\ created' = [created EXCEPT ![r] = 0]
          /\ skipped' = [skipped EXCEPT ![r] = 0]
          /\ idx' = [idx EXCEPT ![r] = 1]
          /\ pc' = [pc EXCEPT ![r] = "loop"]
          /\ UNCHANGED responses
  /\ UNCHANGED <<tests, projectId, createdTestKey, formattedSteps, stepIdx, calls, issues>>
  /\ UNCHANGED <<url, token, eval>>

\* lines 185-197 and 265: the head of the loop, up to the first await
LoopHead(r) ==
  /\ pc[r] = "loop"
  /\ IF ~Iterable(parsedTests[r])
     THEN /\ Respond(r, Response500("TypeError"))
          /\ UNCHANGED <<idx, skipped, calls>>
     ELSE IF idx[r] > Len(parsedTests[r].items)
     THEN /\ Respond(r, Response200(created[r], skipped[r]))
          /\ UNCHANGED <<idx, skipped, calls>>
     ELSE IF invalidItem(test(r))
     THEN /\ skipped' = [skipped EXCEPT ![r] = @ + 1]
          /\ idx' = [idx EXCEPT ![r] = @ + 1]
          /\ UNCHANGED <<pc, responses, calls>>
     ELSE /\ calls' = [calls EXCEPT ![r] =
                         Append(@, Call("getProjectId", idx[r], [projectKey |-> projectKey(r)]))]
          /\ pc' = [pc EXCEPT ![r] = "getProjectId"]
          /\ UNCHANGED <<idx, skipped, responses>>
  /\ UNCHANGED <<tests, parsedTests, created, projectId, createdTestKey,
                 formattedSteps, stepIdx, issues>>
  /\ UNCHANGED <<url, token, eval>>

\* lines 39-51 return, lines 57-66 issue the search
ProjectReturns(r) ==
  /\ pc[r] = "getProjectId"
  /\ projectId' = [projectId EXCEPT ![r] = ProjectIdOf(projectKey(r))]
  /\ calls' = [calls EXCEPT ![r] =
                 Append(Settle(@, "ok"),
                        Call("checkDuplicateTest", idx[r],
                             jqlOf(projectKey(r), storyKey(r), test(r).name.v)))]
  /\ pc' = [pc EXCEPT ![r] = "checkDuplicateTest"]
  /\ UNCHANGED <<tests, parsedTests, idx, created, skipped, createdTestKey,
                 formattedSteps, stepIdx, responses, issues>>
  /\ UNCHANGED <<url, token, eval>>

\* a duplicate counted in created instead of skipped
SearchReturnsDuplicateCountedCreated(r) ==
  /\ pc[r] = "checkDuplicateTest"
  /\ searchAccepted(calls[r][Len(calls[r])].args)
  /\ LET jql == calls[r][Len(calls[r])].args
         total == searchTotal(jql)
     IN IF isDuplicate(total)
        THEN /\ created' = [created EXCEPT ![r] = @ + 1]
             /\ idx' = [idx EXCEPT ![r] = @ + 1]
             /\ calls' = [calls EXCEPT ![r] = SettleSearch(@, total)]
             /\ pc' = [pc EXCEPT ![r] = "loop"]
        ELSE /\ calls' = [calls EXCEPT ![r] =
                            Append(SettleSearch(@, total),
                                   Call("createIssue", idx[r],
                                        [project |-> projectKey(r),
                                         summary |-> test(r).name.v]))]
             /\ pc' = [pc EXCEPT ![r] = "createIssue"]
             /\ UNCHANGED <<created, idx>>
  /\ UNCHANGED <<tests, parsedTests, skipped, projectId, createdTestKey,
                 formattedSteps, stepIdx, responses, issues>>
  /\ UNCHANGED <<url, token, eval>>

\* lines 68 and 207-236: the search returns
SearchReturns(r) ==
  /\ pc[r] = "checkDuplicateTest"
  /\ searchAccepted(calls[r][Len(calls[r])].args)
  /\ LET jql == calls[r][Len(calls[r])].args
         total == searchTotal(jql)
     IN IF isDuplicate(total)
        THEN /\ skipped' = [skipped EXCEPT ![r] = @ + 1]
             /\ idx' = [idx EXCEPT ![r] = @ + 1]
             /\ calls' = [calls EXCEPT ![r] = SettleSearch(@, total)]
             /\ pc' = [pc EXCEPT ![r] = "loop"]
        ELSE /\ calls' = [calls EXCEPT ![r] =
                            Append(SettleSearch(@, total),
                                   Call("createIssue", idx[r],
                                        [project |-> projectKey(r),
                                         summary |-> test(r).name.v]))]
             /\ pc' = [pc EXCEPT ![r] = "createIssue"]
             /\ UNCHANGED <<skipped, idx>>
  /\ UNCHANGED <<tests, parsedTests, created, projectId, createdTestKey,
                 formattedSteps, stepIdx, responses, issues>>
  /\ UNCHANGED <<url, token, eval>>

\* addTestSteps called without await: the first step and the link are sent
\* one after the other
CreateReturnsStepsNotAwaited(r) ==
  /\ pc[r] = "createIssue"
  /\ Len(issues) < MaxIssues
  /\ LET n == Len(issues) + 1
         args == calls[r][Len(calls[r])].args
         steps == formatSteps(test(r))
         link == Call("linkToStory", idx[r],
                      [inwardIssue |-> storyKey(r), outwardIssue |-> IssueKey(n)])
         request == addTestStepsRequest(IssueKey(n), projectId[r], Len(calls[r]))
         sent == IF Len(steps) > 0
                 THEN <<Call("addTestSteps", idx[r],
                             [issue |-> IssueKey(n), projectId |-> projectId[r],
                              method |-> POST, url |-> request.url,
                              token |-> request.token, step |-> stepBody(steps[1])]), link>>
                 ELSE <<link>>
     IN /\ issues' = Append(issues,
                            [key |-> IssueKey(n), id |-> IssueId(n),
                             project |-> args.project, summary |-> args.summary,
                             links |-> {}, steps |-> <<>>,
                             requirementId |-> storyKey(r)])
        /\ createdTestKey' = [createdTestKey EXCEPT ![r] = IssueKey(n)]
        /\ formattedSteps' = [formattedSteps EXCEPT ![r] = steps]
        /\ stepIdx' = [stepIdx EXCEPT ![r] = IF Len(steps) > 0 THEN 1 ELSE 0]
        /\ calls' = [calls EXCEPT ![r] = Settle(@, "ok") \o sent]
        /\ pc' = [pc EXCEPT ![r] = "linkToStory"]
        /\ url' = [url EXCEPT ![r] = IF Len(steps) > 0 THEN request.url ELSE @]
        /\ token' = [token EXCEPT ![r] = IF Len(steps) > 0 THEN request.token ELSE @]
  /\ UNCHANGED <<tests, parsedTests, idx, created, skipped, projectId, responses, eval>>

\* lines 238-259: the tracker creates the issue and the handler goes on to
\* the steps or, without steps, to the link
CreateReturns(r) ==
  /\ pc[r] = "createIssue"
  /\ Len(issues) < MaxIssues
  /\ LET n == Len(issues) + 1
         args == calls[r][Len(calls[r])].args
         steps == formatSteps(test(r))
         request == addTestStepsRequest(IssueKey(n), projectId[r], Len(calls[r]))
         next == callAfterCreate(r, IssueKey(n), steps, 1, request)
     IN /\ issues' = Append(issues,
                            [key |-> IssueKey(n), id |-> IssueId(n),
                             project |-> args.project, summary |-> args.summary,
                             links |-> {}, steps |-> <<>>,
                             requirementId |-> storyKey(r)])
        /\ createdTestKey' = [createdTestKey EXCEPT ![r] = IssueKey(n)]
        /\ formattedSteps' = [formattedSteps EXCEPT ![r] = steps]
        /\ stepIdx' = [stepIdx EXCEPT ![r] = IF Len(steps) > 0 THEN 1 ELSE 0]
        /\ url' = [url EXCEPT ![r] = IF Len(steps) > 0 THEN request.url ELSE @]
        /\ token' = [token EXCEPT ![r] = IF Len(steps) > 0 THEN request.token ELSE @]
        /\ calls' = [calls EXCEPT ![r] = Append(Settle(@, "ok"), next)]
        /\ pc' = [pc EXCEPT ![r] = pcOf(next)]
  /\ UNCHANGED <<tests, parsedTests, idx, created, skipped, projectId, responses, eval>>

\* lines 126-142 and 259: a step is stored, the next one or the link is sent
StepReturns(r) ==
  /\ pc[r] = "addTestSteps"
  /\ LET args == calls[r][Len(calls[r])].args
         next == callAfterCreate(r, createdTestKey[r], formattedSteps[r], stepIdx[r] + 1,
                                 [url |-> url[r], token |-> token[r]])
     IN /\ issues' = [i \in 1..Len(issues) |->
                        IF args.issue \in {issues[i].key, issues[i].id}
                        THEN [issues[i] EXCEPT !.steps = Append(@, args.step)]
                        ELSE issues[i]]
        /\ stepIdx' = [stepIdx EXCEPT ![r] = @ + 1]
        /\ calls' = [calls EXCEPT ![r] = Append(Settle(@, "ok"), next)]
        /\ pc' = [pc EXCEPT ![r] = pcOf(next)]
  /\ UNCHANGED <<tests, parsedTests, idx, created, skipped, projectId,
                 createdTestKey, formattedSteps, responses>>
  /\ UNCHANGED <<url, token, eval>>

\* created kept in one counter of the process, which every invocation in
\* progress sees incremented
LinkReturnsSharedCounter(r) ==
  /\ pc[r] = "linkToStory"
  /\ LET args == calls[r][Len(calls[r])].args
     IN issues' = [i \in 1..Len(issues) |->
                     IF issues[i].key = args.outwardIssue
                     THEN [issues[i] EXCEPT !.links = @ \cup {args.inwardIssue}]
                     ELSE issues[i]]
  /\ created' = [q \in Slots |-> IF q = r \/ pc[q] # "idle" THEN created[q] + 1 ELSE created[q]]
  /\ idx' = [idx EXCEPT ![r] = @ + 1]
  /\ calls' = [calls EXCEPT ![r] = Settle(@, "ok")]
  /\ pc' = [pc EXCEPT ![r] = "loop"]
  /\ UNCHANGED <<tests, parsedTests, skipped, projectId, createdTestKey,
                 formattedSteps, stepIdx, responses>>
  /\ UNCHANGED <<url, token, eval>>

\* the item linked but created++ forgotten
LinkReturnsNotCounted(r) ==
  /\ pc[r] = "linkToStory"
  /\ LET args == calls[r][Len(calls[r])].args
     IN issues' = [i \in 1..Len(issues) |->
                     IF issues[i].key = args.outwardIssue
                     THEN [issues[i] EXCEPT !.links = @ \cup {args.inwardIssue}]
                     ELSE issues[i]]
  /\ idx' = [idx EXCEPT ![r] = @ + 1]
  /\ calls' = [calls EXCEPT ![r] = Settle(@, "ok")]
  /\ pc' = [pc EXCEPT ![r] = "loop"]
  /\ UNCHANGED <<tests, parsedTests, created, skipped, projectId, createdTestKey,
                 formattedSteps, stepIdx, responses>>
  /\ UNCHANGED <<url, token, eval>>

\* lines 259-262: the link exists, the item is counted
LinkReturns(r) ==
  /\ pc[r] = "linkToStory"
  /\ LET args == calls[r][Len(calls[r])].args
     IN issues' = [i \in 1..Len(issues) |->
                     IF issues[i].key = args.outwardIssue
                     THEN [issues[i] EXCEPT !.links = @ \cup {args.inwardIssue}]
                     ELSE issues[i]]
  /\ created' = [created EXCEPT ![r] = @ + 1]
  /\ idx' = [idx EXCEPT ![r] = @ + 1]
  /\ calls' = [calls EXCEPT ![r] = Settle(@, "ok")]
  /\ pc' = [pc EXCEPT ![r] = "loop"]
  /\ UNCHANGED <<tests, parsedTests, skipped, projectId, createdTestKey,
                 formattedSteps, stepIdx, responses>>
  /\ UNCHANGED <<url, token, eval>>

\* a failed step undone: the steps stored so far are removed from the issue
CallFailsStepsRolledBack(r) ==
  /\ pc[r] \in Awaiting
  /\ calls' = [calls EXCEPT ![r] = Settle(@, "failed")]
  /\ Respond(r, Response500(pc[r]))
  /\ issues' = IF pc[r] = "addTestSteps"
               THEN [i \in 1..Len(issues) |->
                       IF issues[i].key = createdTestKey[r]
                       THEN [issues[i] EXCEPT !.steps = <<>>]
                       ELSE issues[i]]
               ELSE issues
  /\ UNCHANGED <<tests, parsedTests, idx, created, skipped, projectId,
                 createdTestKey, formattedSteps, stepIdx>>
  /\ UNCHANGED <<url, token, eval>>

\* the failure caught per item: the item is given up and the loop goes on
CallFailsItemOnly(r) ==
  /\ pc[r] \in Awaiting
  /\ calls' = [calls EXCEPT ![r] = Settle(@, "failed")]
  /\ idx' = [idx EXCEPT ![r] = @ + 1]
  /\ pc' = [pc EXCEPT ![r] = "loop"]
  /\ UNCHANGED <<tests, parsedTests, created, skipped, projectId,
                 createdTestKey, formattedSteps, stepIdx, responses, issues>>
  /\ UNCHANGED <<url, token, eval>>

\* lines 267-272: the awaited call rejects and the catch block answers
CallFails(r) ==
  /\ pc[r] \in Awaiting
  /\ calls' = [calls EXCEPT ![r] = Settle(@, "failed")]
  /\ Respond(r, Response500(pc[r]))
  /\ UNCHANGED <<tests, parsedTests, idx, created, skipped, projectId,
                 createdTestKey, formattedSteps, stepIdx, issues>>
  /\ UNCHANGED <<url, token, eval>>

\* the response is delivered and the invocation's variables go out of scope
Finish(r) ==
  /\ pc[r] = "done"
  /\ pc' = [pc EXCEPT ![r] = "idle"]
  /\ tests' = [tests EXCEPT ![r] = NoValue]
  /\ parsedTests' = [parsedTests EXCEPT ![r] = NoValue]
  /\ idx' = [idx EXCEPT ![r] = 0]
  /\ created' = [created EXCEPT ![r] = 0]
  /\ skipped' = [skipped EXCEPT ![r] = 0]
  /\ projectId' = [projectId EXCEPT ![r] = NoKey]
  /\ createdTestKey' = [createdTestKey EXCEPT ![r] = NoKey]
  /\ formattedSteps' = [formattedSteps EXCEPT ![r] = <<>>]
  /\ stepIdx' = [stepIdx EXCEPT ![r] = 0]
  /\ calls' = [calls EXCEPT ![r] = <<>>]
  /\ responses' = [responses EXCEPT ![r] = <<>>]
  /\ UNCHANGED issues
  /\ url' = [url EXCEPT ![r] = <<>>]
  /\ token' = [token EXCEPT ![r] = NoToken]
  /\ UNCHANGED eval

Step(r) ==
  \/ \E body \in Bodies : Receive(r, body)
  \/ Entry(r)
  \/ LoopHead(r)
  \/ ProjectReturns(r)
  \/ SearchReturns(r)
  \/ CreateReturns(r)
  \/ StepReturns(r)
  \/ LinkReturns(r)
  \/ CallFails(r)
  \/ Finish(r)

\* requests handled one after the other
Next == \E r \in SeqSlots : Step(r)

Spec == Init /\ [][Next]_vars

\* the handler runs on when it can, and every awaited call returns or fails
\* (CallFails is listed first: it is enabled at every awaited call, which
\* spares evaluating ENABLED of the costlier returns)
Progress(r) ==
  \/ CallFails(r)
  \/ Entry(r)
  \/ LoopHead(r)
  \/ ProjectReturns(r)
  \/ SearchReturns(r)
  \/ CreateReturns(r)
  \/ StepReturns(r)
  \/ LinkReturns(r)
  \/ Finish(r)

FairSpec == Init /\ [][Next]_vars /\ \A r \in SeqSlots : WF_vars(Progress(r))

\* a request with a single item, of any form, arrives at a tracker that has
\* no Test issue yet
ReceiveItem(r, body) ==
  /\ issues = <<>>
  /\ Receive(r, body)

ItemNext ==
  \E r \in SeqSlots :
    \/ \E body \in ItemBodies : ReceiveItem(r, body)
    \/ Progress(r)

ItemSpec == Init /\ [][ItemNext]_vars

\* two requests handled by the same process: each invocation runs from one
\* await to the next, and the other may run in between
InterleavedBodies ==
  {TestsArray(<<ItemList[1], ItemList[4]>>),
   TestsArray(<<ItemList[4]>>),
   TestsArray(<<ItemList[5]>>)}

InterleavedNext ==
  \E r \in Slots :
    \/ \E body \in InterleavedBodies : Receive(r, body)
    \/ Progress(r)

InterleavedSpec == Init /\ [][InterleavedNext]_vars

(* ---------------- the functions applied on their own ---------------- *)

\* the longest text a function is applied to
MaxLen == 5

RECURSIVE StringsUpTo(_, _)
StringsUpTo(alphabet, n) ==
  IF n = 0 THEN {<<>>}
  ELSE LET shorter == StringsUpTo(alphabet, n - 1)
       IN shorter \cup {Append(s, c) : s \in shorter, c \in alphabet}

Evaluation(fn, args) == [fn |-> fn, args |-> args, result |-> <<>>, done |-> FALSE]

\* escapeJQL(text)
EscapeInputs ==
  {Evaluation("escapeJQL", <<text>>) : text \in StringsUpTo({"a", DQ, BS}, MaxLen)}

\* parseNumberedSteps(stepsString, expectedResult)
ParseInputs ==
  {Evaluation("parseNumberedSteps", <<stepsString, expectedResult>>) :
     stepsString \in {Undefined} \cup {Str(s) : s \in StringsUpTo({"1", ".", " ", "x", NL}, MaxLen)},
     expectedResult \in {Undefined, Str(<<"r">>)}}

\* generateZephyrJWT(method, apiPath, queryString), and the clock it reads
pathA == <<"/", "a">>
queryAB == <<"a", "=", "1", "&", "b", "=", "2">>
queryBA == <<"b", "=", "2", "&", "a", "=", "1">>
SignInputs ==
  {Evaluation("generateZephyrJWT", <<method, apiPath, queryString, epoch>>) :
     method \in {POST, <<"p", "o", "s", "t">>, <<"g", "e", "t">>},
     apiPath \in {pathA, pathA \o <<"/">>, pathA \o <<"/", "/">>},
     queryString \in {<<>>, queryAB, queryBA, <<"b", "=", "2">>},
     epoch \in {0, 1}}

FnInit ==
  /\ Idle
  /\ \/ eval \in EscapeInputs
     \/ eval \in ParseInputs
     \/ eval \in SignInputs

Returns(result) ==
  /\ ~eval.done
  /\ eval' = [eval EXCEPT !.result = result, !.done = TRUE]
  /\ UNCHANGED <<pc, tests, parsedTests, idx, created, skipped, projectId,
                 createdTestKey, formattedSteps, stepIdx, calls, responses, issues,
                 url, token>>

ApplyEscapeJQL ==
  /\ eval.fn = "escapeJQL"
  /\ Returns(escapeJQL(eval.args[1]))

ApplyParseNumberedSteps ==
  /\ eval.fn = "parseNumberedSteps"
  /\ Returns(parseNumberedSteps(eval.args[1], eval.args[2]))

ApplyGenerateZephyrJWT ==
  /\ eval.fn = "generateZephyrJWT"
  /\ Returns(generateZephyrJWT(eval.args[1], eval.args[2], eval.args[3], eval.args[4]))

FnNext ==
  \/ ApplyEscapeJQL
  \/ ApplyParseNumberedSteps
  \/ ApplyGenerateZephyrJWT

FnSpec == FnInit /\ [][FnNext]_vars

\* the function has returned from a call with these arguments
Returned(fn) == eval.fn = fn /\ eval.done

(* ---------------- what the claims speak of ---------------- *)

\* the invocation has a batch it iterates over
InBatch(r) == pc[r] \notin {"idle", "entry"} /\ parsedTests[r].t = "array"
items(r) == parsedTests[r].items

\* a field that is absent or the empty string
Lacking(field) == field.t = "undefined" \/ field.v = <<>>
LacksRequired(item) == Lacking(item.requirementId) \/ Lacking(item.name)

CallsOf(r, i) == {k \in DOMAIN calls[r] : calls[r][k].item = i}
CallsOfKind(r, kind) == {k \in DOMAIN calls[r] : calls[r][k].kind = kind}

\* the duplicate check of item i returned and reported a match / no match
ReportedDuplicate(r, i) ==
  \E k \in CallsOf(r, i) :
    /\ calls[r][k].kind = "checkDuplicateTest"
    /\ calls[r][k].status = "ok"
    /\ calls[r][k].total > 0
ReportedNew(r, i) ==
  \E k \in CallsOf(r, i) :
    /\ calls[r][k].kind = "checkDuplicateTest"
    /\ calls[r][k].status = "ok"
    /\ calls[r][k].total = 0

\* the items before the loop's position that were invalid / duplicates
InvalidBefore(r) == {i \in 1..(idx[r] - 1) : LacksRequired(items(r)[i])}
DuplicateBefore(r) == {i \in 1..(idx[r] - 1) : ReportedDuplicate(r, i)}

Answered(r, status) ==
  pc[r] = "done" /\ Len(responses[r]) = 1 /\ responses[r][1].status = status

\* the positions in the log of the create-step calls of item i, in the order sent
StepCalls(r, i) ==
  SelectSeq([k \in 1..Len(calls[r]) |-> k],
            LAMBDA k : calls[r][k].kind = "addTestSteps" /\ calls[r][k].item = i)

\* the invocation is publishing the steps of its current item, or has
\* published them all and is linking the item
Publishing(r) == pc[r] \in {"addTestSteps", "linkToStory"}

\* the issue the invocation created for its current item
CreatedIssue(r) == issues[createdTestKey[r].n]

\* the lines of a text: where each starts and where it ends
LineStarts(s) == {a \in 1..(Len(s) + 1) : a = 1 \/ s[a - 1] = NL}
LineEnd(s, a) ==
  CHOOSE e \in a..(Len(s) + 1) :
    /\ e = Len(s) + 1 \/ s[e] = NL
    /\ \A j \in a..(e - 1) : s[j] # NL
Line(s, a) == SubSeq(s, a, LineEnd(s, a) - 1)

NonBlank(line) == \E i \in 1..Len(line) : line[i] \notin Space

\* a non-blank line from its first to its last character that is not white space
Trimmed(line) ==
  LET inked == {i \in 1..Len(line) : line[i] \notin Space}
      first == CHOOSE i \in inked : \A j \in inked : i <= j
      last == CHOOSE i \in inked : \A j \in inked : j <= i
  IN SubSeq(line, first, last)

\* a text without its leading white space
WithoutLeadingSpace(s) ==
  LET k == CHOOSE n \in 0..Len(s) :
             /\ \A j \in 1..n : s[j] \in Space
             /\ n = Len(s) \/ s[n + 1] \notin Space
  IN SubSeq(s, k + 1, Len(s))

\* a trimmed line without its numbering: one or more digits, a period and
\* the white space after it
Numbered(t) ==
  \E d \in 1..(Len(t) - 1) : (\A j \in 1..d : t[j] \in Digits) /\ t[d + 1] = "."
Unnumbered(t) ==
  IF Numbered(t)
  THEN LET d == CHOOSE n \in 1..(Len(t) - 1) :
                  (\A j \in 1..n : t[j] \in Digits) /\ t[n + 1] = "."
       IN WithoutLeadingSpace(SubSeq(t, d + 2, Len(t)))
  ELSE t

\* the step texts a free-text steps string stands for
ExpectedStepTexts(s) ==
  LET starts == {a \in LineStarts(s) : NonBlank(Line(s, a))}
      nth(k) == CHOOSE a \in starts : Cardinality({b \in starts : b < a}) = k - 1
  IN [k \in 1..Cardinality(starts) |-> Unnumbered(Trimmed(Line(s, nth(k))))]

\* the code points of the characters of query strings
CodePoint(c) ==
  CASE c = "&" -> 38 [] c = "1" -> 49 [] c = "2" -> 50 [] c = "=" -> 61
    [] c = "a" -> 97 [] c = "b" -> 98 [] OTHER -> 0

\* a key comes before another, or is the same, in code point order
RECURSIVE KeyLeq(_, _)
KeyLeq(k1, k2) ==
  IF k1 = <<>> THEN TRUE
  ELSE IF k2 = <<>> THEN FALSE
  ELSE IF CodePoint(Head(k1)) # CodePoint(Head(k2))
       THEN CodePoint(Head(k1)) < CodePoint(Head(k2))
       ELSE KeyLeq(Tail(k1), Tail(k2))

KeyOf(param) == split(param, "=")[1]

RECURSIVE JoinWith(_, _)
JoinWith(parts, sep) ==
  IF parts = <<>> THEN <<>>
  ELSE IF Len(parts) = 1 THEN parts[1]
  ELSE parts[1] \o <<sep>> \o JoinWith(Tail(parts), sep)

\* the parameters of a query string in the order of their keys
SortedByKey(queryString) ==
  LET params == IF queryString = <<>> THEN <<>> ELSE split(queryString, "&")
      n == Len(params)
      order == CHOOSE f \in [1..n -> 1..n] :
                 /\ \A i, j \in 1..n : i # j => f[i] # f[j]
                 /\ \A i \in 1..(n - 1) : KeyLeq(KeyOf(params[f[i]]), KeyOf(params[f[i + 1]]))
  IN JoinWith([i \in 1..n |-> params[order[i]]], "&")

WithoutTrailingSlashes(path) ==
  LET k == CHOOSE n \in 0..Len(path) :
             /\ \A j \in (n + 1)..Len(path) : path[j] = "/"
             /\ n = 0 \/ path[n] # "/"
  IN SubSeq(path, 1, k)

\* the canonical request: the method in upper case, the path without
\* trailing slashes and the parameters sorted by key, joined by "&"
CanonicalRequest(method, path, queryString) ==
  toUpperCase(method) \o <<"&">> \o WithoutTrailingSlashes(path)
    \o <<"&">> \o SortedByKey(queryString)

\* steps that are absent, null, an empty string, an empty list, or neither
\* a string nor a list
WithoutSteps(item) ==
  \/ item.steps.t \notin {"string", "array"}
  \/ item.steps.t = "string" /\ item.steps.s = <<>>
  \/ item.steps.t = "array" /\ item.steps.a = <<>>

\* the items whose link call returned
Linked(r) ==
  {i \in 1..Len(items(r)) :
     \E k \in CallsOf(r, i) : calls[r][k].kind = "linkToStory" /\ calls[r][k].status = "ok"}

\* the path and the query string of the request a url is sent as: what
\* follows the host up to the first "?", and what follows that "?"
QueryMark(u) == CHOOSE i \in 1..Len(u) : u[i] = "?" /\ \A j \in 1..(i - 1) : u[j] # "?"
WirePath(u) == SubSeq(u, 2, QueryMark(u) - 1)
WireQuery(u) == SubSeq(u, QueryMark(u) + 1, Len(u))

(* ---------------- claims ---------------- *)

\* C1: an item of the batch that lacks requirementId or name has no outbound
\* call made on its behalf, whatever the other items are, and once the loop
\* has passed it it is counted in skipped exactly once: skipped is the number
\* of invalid items passed plus the number of items reported as duplicates.
C1_InvalidItemSkippedWithoutCall ==
  \A r \in Slots :
    InBatch(r) =>
      /\ \A i \in 1..Len(items(r)) : LacksRequired(items(r)[i]) => CallsOf(r, i) = {}
      /\ skipped[r] = Cardinality(InvalidBefore(r)) + Cardinality(DuplicateBefore(r))

\* a batch of a valid item and an invalid one was answered: calls were made,
\* none for the invalid item, which was skipped
C1_Witness ==
  \E r \in Slots :
    /\ Answered(r, 200)
    /\ Len(items(r)) = 2
    /\ ~LacksRequired(items(r)[1])
    /\ Lacking(items(r)[2].name)
    /\ ~Lacking(items(r)[2].requirementId)
    /\ calls[r] # <<>>
    /\ skipped[r] >= 1

\* C2: for a valid item whose duplicate check reported a match, no issue
\* creation, step publication or link call is made and the item is counted
\* in skipped; an issue-creation call is made for an item only after that
\* item's duplicate check returned without a match.
C2_DuplicateSkippedCreateOnlyWhenNew ==
  \A r \in Slots :
    InBatch(r) =>
      /\ \A i \in 1..Len(items(r)) :
           ReportedDuplicate(r, i) =>
             /\ \A k \in CallsOf(r, i) :
                  calls[r][k].kind \notin {"createIssue", "addTestSteps", "linkToStory"}
             /\ i < idx[r]
      /\ skipped[r] = Cardinality(InvalidBefore(r)) + Cardinality(DuplicateBefore(r))
      /\ \A k \in CallsOfKind(r, "createIssue") :
           \E j \in 1..(k - 1) :
             /\ calls[r][j].kind = "checkDuplicateTest"
             /\ calls[r][j].item = calls[r][k].item
             /\ calls[r][j].status = "ok"
             /\ calls[r][j].total = 0

\* an item was reported as a duplicate and skipped while another item of the
\* same batch was created
C2_Witness ==
  \E r \in Slots :
    /\ Answered(r, 200)
    /\ \E i \in 1..Len(items(r)) : ReportedDuplicate(r, i)
    /\ CallsOfKind(r, "createIssue") # {}
    /\ skipped[r] = 1

\* position of a call in an item's pipeline
Rank(kind) ==
  CASE kind = "getProjectId" -> 0
    [] kind = "checkDuplicateTest" -> 1
    [] kind = "createIssue" -> 2
    [] kind = "addTestSteps" -> 3
    [] kind = "linkToStory" -> 4

\* C3: the items are processed in input order, one at a time: a call is
\* issued only when every earlier call of the invocation has returned, the
\* calls of an item come after those of the items before it and are made for
\* the item at that position of the input, and within an item the order is
\* duplicate check, issue creation, step publication, link.
C3_SequentialInInputOrder ==
  \A r \in Slots :
    InBatch(r) =>
      \A k \in DOMAIN calls[r] :
        /\ k < Len(calls[r]) => calls[r][k].status = "ok"
        /\ calls[r][k].item \in 1..Len(items(r))
        /\ calls[r][k].item <= idx[r]
        /\ calls[r][k].kind = "createIssue" =>
             calls[r][k].args.summary = items(r)[calls[r][k].item].name.v
        /\ calls[r][k].kind = "linkToStory" =>
             calls[r][k].args.inwardIssue = items(r)[calls[r][k].item].requirementId.v
        /\ \A j \in 1..(k - 1) :
             /\ calls[r][j].item <= calls[r][k].item
             /\ calls[r][j].item = calls[r][k].item =>
                  /\ Rank(calls[r][j].kind) <= Rank(calls[r][k].kind)
                  /\ Rank(calls[r][j].kind) = Rank(calls[r][k].kind) =>
                       calls[r][k].kind = "addTestSteps"

\* the second item of a batch is being linked after the first item went
\* through duplicate check, creation, two steps and link
C3_Witness ==
  \E r \in Slots :
    /\ InBatch(r)
    /\ pc[r] = "linkToStory"
    /\ idx[r] = 2
    /\ Cardinality({k \in CallsOf(r, 1) : calls[r][k].kind = "addTestSteps"}) = 2
    /\ \E k \in CallsOf(r, 1) : calls[r][k].kind = "linkToStory"
    /\ \E k \in CallsOf(r, 2) : calls[r][k].kind = "createIssue"

\* C4: once an external call has failed, no further outbound call is made
\* (the failed call is the last of the invocation) and the request is
\* answered with a single 500 response that carries the error and no
\* created or skipped count.
C4_FirstFailureAbortsBatch ==
  \A r \in Slots :
    \A k \in DOMAIN calls[r] :
      calls[r][k].status = "failed" =>
        /\ k = Len(calls[r])
        /\ pc[r] = "done"
        /\ Len(responses[r]) = 1
        /\ responses[r][1].status = 500
        /\ responses[r][1].keys = {"error"}

\* the batch is aborted at its second item after the first was created, and
\* the 500 response does not tell
C4_Witness ==
  \E r \in Slots :
    /\ Answered(r, 500)
    /\ Len(items(r)) = 2
    /\ created[r] = 1
    /\ idx[r] = 2
    /\ calls[r][Len(calls[r])].status = "failed"
    /\ "created" \notin responses[r][1].keys

\* the body of a success tally, and of an error payload
IsTally(response) ==
  response.status = 200 /\ response.keys = {"message", "created", "skipped"}
IsError(response) ==
  response.status \in {400, 500} /\ response.keys = {"error"}

\* C5: every invocation produces exactly one response, a success tally or an
\* error payload: nothing is written to res before the handler ends, one
\* response has been written when it has ended, and, every external call
\* returning or failing, it does end.
C5_ExactlyOneResponse ==
  /\ [](\A r \in Slots :
          /\ pc[r] # "done" => responses[r] = <<>>
          /\ pc[r] = "done" =>
               /\ Len(responses[r]) = 1
               /\ IsTally(responses[r][1]) \/ IsError(responses[r][1]))
  /\ \A r \in SeqSlots : (pc[r] = "entry") ~> (pc[r] = "done")

\* a batch that took at least five awaited calls was answered, once
C5_Witness ==
  \E r \in Slots :
    /\ pc[r] = "done"
    /\ Len(responses[r]) = 1
    /\ IsTally(responses[r][1])
    /\ Len(calls[r]) >= 5

\* the request's tests field is missing, is a string that is not JSON, or is
\* after parsing not a non-empty list
BadBatch(body) ==
  \/ body.t = "undefined"
  \/ body.t = "string" /\ body.json # "array"
  \/ body.t = "object"
  \/ body.t \in {"string", "array"} /\ body.items = <<>>

\* C6: a request whose tests field is missing, unparsable or not a non-empty
\* list is answered 400 and no outbound call is made for it.
C6_BadBatchAnswered400 ==
  \A r \in Slots :
    (pc[r] = "done" /\ BadBatch(tests[r])) =>
      /\ calls[r] = <<>>
      /\ Len(responses[r]) = 1
      /\ responses[r][1].status = 400

\* C7: the accumulator changes once per item: while the loop stands at item
\* idx, created + skipped is the number of items processed, idx - 1, and a
\* 200 response has created + skipped equal to the size of the batch.
C7_OneCountPerItem ==
  \A r \in Slots :
    InBatch(r) =>
      /\ created[r] + skipped[r] = idx[r] - 1
      /\ idx[r] <= Len(items(r)) + 1
      /\ Answered(r, 200) =>
           responses[r][1].created + responses[r][1].skipped = Len(items(r))

\* a batch of one created and one skipped item was answered
C7_Witness ==
  \E r \in Slots :
    /\ Answered(r, 200)
    /\ Len(items(r)) = 2
    /\ responses[r][1].created = 1
    /\ responses[r][1].skipped = 1

\* C8: in a 200 response created is the number of issue-creation calls of
\* the request and skipped is the number of invalid items plus the number of
\* items reported as duplicates.
C8_TallyMatchesCalls ==
  \A r \in Slots :
    (InBatch(r) /\ Answered(r, 200)) =>
      /\ responses[r][1].created = Cardinality(CallsOfKind(r, "createIssue"))
      /\ responses[r][1].skipped =
           Cardinality({i \in 1..Len(items(r)) : LacksRequired(items(r)[i])})
             + Cardinality({i \in 1..Len(items(r)) : ReportedDuplicate(r, i)})

\* a new item and a true duplicate of a linked test: created 1, skipped 1,
\* one issue-creation call
C8_Witness ==
  \E r \in Slots :
    /\ Answered(r, 200)
    /\ Len(items(r)) = 2
    /\ \E i, j \in 1..2 : ReportedNew(r, i) /\ ReportedDuplicate(r, j)
    /\ responses[r][1].created = 1
    /\ responses[r][1].skipped = 1
    /\ Cardinality(CallsOfKind(r, "createIssue")) = 1

SamePair(a, b) ==
  /\ ~LacksRequired(a)
  /\ ~LacksRequired(b)
  /\ a.name.v = b.name.v
  /\ a.requirementId.v = b.requirementId.v

\* C9: within one batch, for two items of the same name and requirementId at
\* most one issue-creation call is made, and when the loop has passed both,
\* the later one was reported as a duplicate and counted as skipped (the
\* tracker's search showing every issue and link already created).
C9_OneCreationPerPairInBatch ==
  \A r \in Slots :
    InBatch(r) =>
      \A i, j \in 1..Len(items(r)) :
        (i < j /\ SamePair(items(r)[i], items(r)[j])) =>
          /\ Cardinality({k \in CallsOfKind(r, "createIssue") : calls[r][k].item \in {i, j}}) <= 1
          /\ j < idx[r] => (ReportedDuplicate(r, j) /\ skipped[r] >= 1)

\* a batch that names the same new test twice: created once, then skipped
C9_Witness ==
  \E r \in Slots :
    /\ Answered(r, 200)
    /\ Len(items(r)) = 2
    /\ SamePair(items(r)[1], items(r)[2])
    /\ ReportedNew(r, 1)
    /\ ReportedDuplicate(r, 2)
    /\ responses[r][1].created = 1

\* C10: over any sequence of requests, resubmissions after an aborted batch
\* included, the tracker holds at most one Test issue created for a given
\* name and requirementId.
C10_OneIssuePerPairEver ==
  \A m, n \in 1..Len(issues) :
    (issues[m].summary = issues[n].summary
       /\ issues[m].requirementId = issues[n].requirementId) => m = n

\* C11: the create-step calls of an item are the steps of its formatted list,
\* one call per step and in list order; each is sent right after the one
\* before it returned successfully; and once all have returned (the item is
\* being linked) the steps stored on the issue are the formatted list.
C11_StepsPublishedInListOrder ==
  \A r \in Slots :
    Publishing(r) =>
      LET sent == StepCalls(r, idx[r])
          list == formattedSteps[r]
      IN /\ Len(sent) <= Len(list)
         /\ \A j \in 1..Len(sent) :
              /\ calls[r][sent[j]].args.step =
                   [step |-> list[j].step, data |-> list[j].data, result |-> list[j].result]
              /\ j < Len(sent) =>
                   /\ calls[r][sent[j]].status = "ok"
                   /\ sent[j + 1] = sent[j] + 1
         /\ pc[r] = "addTestSteps" => Len(sent) = stepIdx[r]
         /\ pc[r] = "linkToStory" =>
              /\ Len(sent) = Len(list)
              /\ \A j \in 1..Len(sent) : calls[r][sent[j]].status = "ok"
              /\ CreatedIssue(r).steps =
                   [j \in 1..Len(list) |->
                      [step |-> list[j].step, data |-> list[j].data, result |-> list[j].result]]

\* an item with two different steps has both stored and is being linked
C11_Witness ==
  \E r \in Slots :
    /\ pc[r] = "linkToStory"
    /\ Len(formattedSteps[r]) = 2
    /\ formattedSteps[r][1] # formattedSteps[r][2]
    /\ Len(CreatedIssue(r).steps) = 2
    /\ Len(StepCalls(r, idx[r])) = 2

\* C12: when an item gives its steps as free text and supplies expectedResult,
\* every create-step call of the item has an empty result except the call of
\* the last step, whose result is the item's expectedResult.
C12_LastStepCarriesExpectedResult ==
  \A r \in Slots :
    Publishing(r) =>
      LET item == items(r)[idx[r]]
          sent == StepCalls(r, idx[r])
      IN (item.steps.t = "string" /\ Truthy(item.expectedResult)) =>
           \A j \in 1..Len(sent) :
             calls[r][sent[j]].args.step.result =
               IF j = Len(formattedSteps[r]) THEN item.expectedResult.v ELSE <<>>

\* C13: applied to a steps string, parseNumberedSteps returns one step per
\* non-blank line, in the order of the lines; the text of each step is the
\* line trimmed and without its numbering prefix (digits, a period, white
\* space), nothing else removed, and its data is empty.
C13_OneStepPerNonBlankLine ==
  (Returned("parseNumberedSteps") /\ eval.args[1].t = "string") =>
    LET expected == ExpectedStepTexts(eval.args[1].v)
    IN /\ Len(eval.result) = Len(expected)
       /\ \A k \in 1..Len(expected) :
            /\ eval.result[k].step = expected[k]
            /\ eval.result[k].data = <<>>

\* a numbered line, a blank line and a second line gave two steps
C13_Witness ==
  /\ Returned("parseNumberedSteps")
  /\ eval.args[1] = Str(<<"1", ".", NL, NL, "x">>)
  /\ Len(eval.result) = 2

\* C16: escapeJQL returns its input with one backslash added before each
\* double quote and each backslash, every character of the input kept and in
\* the same order; the characters of the result other than the added
\* backslashes are the input, and the tracker reads the result back as the
\* input.
C16_EscapeAddsOneBackslash ==
  Returned("escapeJQL") =>
    LET in == eval.args[1]
        out == eval.result
        special == {i \in 1..Len(in) : in[i] = DQ \/ in[i] = BS}
        pos(i) == i + Cardinality({j \in special : j <= i})
        added == {pos(i) - 1 : i \in special}
    IN /\ Len(out) = Len(in) + Cardinality(special)
       /\ \A i \in 1..Len(in) : out[pos(i)] = in[i]
       /\ \A p \in added : out[p] = BS
       /\ SelectSeq([p \in 1..Len(out) |-> IF p \in added THEN <<>> ELSE <<out[p]>>],
                    LAMBDA c : c # <<>>)
            = [i \in 1..Len(in) |-> <<in[i]>>]
       /\ jqlLiteralValue(out) = in

\* a text with a plain character, a double quote and a backslash was escaped
C16_Witness ==
  /\ Returned("escapeJQL")
  /\ eval.args[1] = <<"a", DQ, BS, BS, "a">>
  /\ eval.result = <<"a", BS, DQ, BS, BS, BS, BS, "a">>

\* C18: whatever method, path and query string the signer is given, the text
\* it hashes is the method in upper case, the path without trailing slashes
\* and the query parameters sorted by key, joined by "&" (so the order of the
\* parameters and trailing slashes make no difference, and an empty query
\* gives an empty third field).
C18_SignerCanonicalizes ==
  Returned("generateZephyrJWT") =>
    eval.result.qsh = sha256(CanonicalRequest(eval.args[1], eval.args[2], eval.args[3]))

\* C14: for an item whose steps are absent, null, an empty string, an empty
\* list, or neither a string nor a list, no create-step call is made; the
\* call after the item's successful creation is its link, and once the link
\* has returned the item is counted in created and the request is not
\* answered with an error.
C14_NoStepsStillLinked ==
  \A r \in Slots :
    InBatch(r) =>
      \A i \in 1..Len(items(r)) :
        WithoutSteps(items(r)[i]) =>
          /\ StepCalls(r, i) = <<>>
          /\ \A k \in CallsOf(r, i) :
               (calls[r][k].kind = "createIssue" /\ calls[r][k].status = "ok") =>
                 /\ k < Len(calls[r])
                 /\ calls[r][k + 1].kind = "linkToStory"
                 /\ calls[r][k + 1].item = i
          /\ i \in Linked(r) =>
               /\ created[r] = Cardinality(Linked(r))
               /\ \A k \in CallsOf(r, i) : calls[r][k].status = "ok"
               /\ (pc[r] = "done" /\ i = Len(items(r))) => Answered(r, 200)

\* an item whose steps are a number was created and linked, and the request
\* was answered with created 1
C14_Witness ==
  \E r \in Slots :
    /\ InBatch(r)
    /\ Answered(r, 200)
    /\ Len(items(r)) = 1
    /\ items(r)[1].steps.t = "number"
    /\ 1 \in Linked(r)
    /\ responses[r][1].created = 1

\* C15: in every duplicate-check query the test name, the requirementId and
\* the project key taken from it are embedded as the escaping function
\* returns them, so that the two string literals of the query end only
\* where the query closes them.
C15_EveryFieldEscapedInQuery ==
  \A r \in Slots :
    InBatch(r) =>
      \A k \in CallsOfKind(r, "checkDuplicateTest") :
        LET item == items(r)[calls[r][k].item]
            jql == calls[r][k].args
        IN /\ jql.summary = escapeJQL(item.name.v)
           /\ jql.linkedIssues = escapeJQL(item.requirementId.v)
           /\ jql.project = escapeJQL(projectKeyOf(item.requirementId.v))
           /\ validLiteral(jql.summary)
           /\ validLiteral(jql.linkedIssues)

\* C17: every create-step call is a POST to the test-management host whose
\* token's qsh is the hash of that request's own method, path and query
\* string, and whose query string is the projectId parameter with the
\* project id of the item's project.
C17_SignedRequestIsSentRequest ==
  \A r \in Slots :
    InBatch(r) =>
      \A k \in CallsOfKind(r, "addTestSteps") :
        LET sent == calls[r][k].args
            item == items(r)[calls[r][k].item]
        IN /\ sent.url[1] = ZEPHYR_BASE
           /\ \E i \in 1..Len(sent.url) : sent.url[i] = "?"
           /\ sent.token.qsh =
                sha256(sent.method \o <<"&">> \o WirePath(sent.url)
                         \o <<"&">> \o WireQuery(sent.url))
           /\ WireQuery(sent.url) =
                <<"projectId=">> \o asText(ProjectIdOf(projectKeyOf(item.requirementId.v)))

\* the second step of an item has been sent with its signed request
C17_Witness ==
  \E r \in Slots :
    /\ pc[r] = "addTestSteps"
    /\ Len(StepCalls(r, idx[r])) = 2
    /\ calls[r][Len(calls[r])].args.token.qsh # sha256(<<>>)

\* C19: every create-step call carries a token issued for that call: the
\* token was issued when the call was sent (the clock of an invocation being
\* the number of calls it has sent) and expires 60 seconds later, so no call
\* carries the token of an earlier step.
C19_FreshTokenPerStepCall ==
  \A r \in Slots :
    \A k \in CallsOfKind(r, "addTestSteps") :
      /\ calls[r][k].args.token.exp = calls[r][k].args.token.iat + 60
      /\ calls[r][k].args.token.iat = k - 1

\* C20: the create-step calls of an item address the created issue by its
\* id, and the link call of the item names the issue by its key.
C20_StepsByIdLinkByKey ==
  \A r \in Slots :
    Publishing(r) =>
      /\ \A j \in 1..Len(StepCalls(r, idx[r])) :
           LET sent == calls[r][StepCalls(r, idx[r])[j]].args
           IN /\ sent.issue = CreatedIssue(r).id
              /\ WirePath(sent.url) =
                   <<"/connect/public/rest/api/1.0/teststep/">> \o asText(CreatedIssue(r).id)
      /\ pc[r] = "linkToStory" =>
           calls[r][Len(calls[r])].args.outwardIssue = CreatedIssue(r).key

\* C21: when a create-step call of an item has failed, it is the k-th of the
\* item and the last call of the invocation; the issue created for the item
\* is still in the tracker with exactly the k-1 steps sent before it, no
\* link call was made for the item, the issue has no link, and created
\* counts only the items linked before.
C21_FailedStepLeavesPartialIssue ==
  \A r \in Slots :
    \A k \in CallsOfKind(r, "addTestSteps") :
      calls[r][k].status = "failed" =>
        LET i == calls[r][k].item
            sent == StepCalls(r, i)
        IN /\ k = Len(calls[r])
           /\ sent[Len(sent)] = k
           /\ createdTestKey[r].n \in DOMAIN issues
           /\ CreatedIssue(r).key = createdTestKey[r]
           /\ CreatedIssue(r).summary = items(r)[i].name.v
           /\ CreatedIssue(r).steps =
                [j \in 1..(Len(sent) - 1) |-> calls[r][sent[j]].args.step]
           /\ CreatedIssue(r).links = {}
           /\ \A c \in CallsOf(r, i) : calls[r][c].kind # "linkToStory"
           /\ i \notin Linked(r)
           /\ created[r] = Cardinality(Linked(r))
           /\ Answered(r, 500)

\* the second create-step call of an item failed after the first was stored
C21_Witness ==
  \E r \in Slots :
    /\ pc[r] = "done"
    /\ calls[r] # <<>>
    /\ calls[r][Len(calls[r])].kind = "addTestSteps"
    /\ calls[r][Len(calls[r])].status = "failed"
    /\ Len(StepCalls(r, idx[r])) = 2
    /\ Len(CreatedIssue(r).steps) = 1

\* C22: created counts exactly the items whose link call has returned; an
\* item has at most one link call, sent after its creation call and all the
\* create-step calls of its step list have returned successfully, with the
\* item's requirementId as inward issue and the key of the Test issue
\* created for the item as outward issue.
C22_OneLinkAfterCreationAndSteps ==
  \A r \in Slots :
    InBatch(r) =>
      /\ created[r] = Cardinality(Linked(r))
      /\ \A i \in 1..Len(items(r)) :
           LET item == items(r)[i]
               links == {k \in CallsOf(r, i) : calls[r][k].kind = "linkToStory"}
               sent == StepCalls(r, i)
           IN /\ Cardinality(links) <= 1
              /\ \A k \in links :
                   /\ \E c \in CallsOf(r, i) :
                        /\ c < k
                        /\ calls[r][c].kind = "createIssue"
                        /\ calls[r][c].status = "ok"
                   /\ Len(sent) = Len(formatSteps(item))
                   /\ \A j \in 1..Len(sent) :
                        sent[j] < k /\ calls[r][sent[j]].status = "ok"
                   /\ calls[r][k].args.inwardIssue = item.requirementId.v
                   /\ \E n \in DOMAIN issues :
                        /\ issues[n].key = calls[r][k].args.outwardIssue
                        /\ issues[n].summary = item.name.v
                        /\ issues[n].requirementId = item.requirementId.v
                        /\ Len(issues[n].steps) = Len(sent)

\* an item with two steps is counted in created after its one link call
C22_Witness ==
  \E r \in Slots :
    /\ InBatch(r)
    /\ created[r] = 1
    /\ \E i \in Linked(r) : Len(StepCalls(r, i)) = 2

\* C23: while two requests are handled interleaved, the counters of each
\* invocation count its own items only: at every moment created is the
\* number of its items whose link call returned and skipped the number of
\* its items found invalid or duplicate, and a 200 response carries these
\* two counts, which add up to the number of items of that request.
C23_CountsAreOfOwnItems ==
  \A r \in Slots :
    InBatch(r) =>
      /\ created[r] = Cardinality(Linked(r))
      /\ skipped[r] = Cardinality(InvalidBefore(r) \cup DuplicateBefore(r))
      /\ Answered(r, 200) =>
           /\ responses[r][1].created = created[r]
           /\ responses[r][1].skipped = skipped[r]
           /\ created[r] + skipped[r] = Len(items(r))

\* two requests answered while both were in progress: one with an invalid
\* and a created item, the other with one created item
C23_Witness ==
  /\ InBatch(1) /\ Answered(1, 200)
  /\ InBatch(2) /\ Answered(2, 200)
  /\ responses[1][1].created = 1 /\ responses[1][1].skipped = 1
  /\ responses[2][1].created = 1 /\ responses[2][1].skipped = 0
  /\ Len(issues) = 2

====
